---- MODULE Spec2Model ----
(***************************************************************************)
(* Request handlers of api/views/base.py (BasePatientView: GET/PUT of the  *)
(* per-patient record of one section) and api/views/report.py (ReportView, *)
(* QuickReportView: GET/POST/DELETE of per-patient reports, paginated      *)
(* lists).  The document store is the state; each handler is a function    *)
(* from (store, request) to (store, response).                             *)
(***************************************************************************)
EXTENDS Integers, Sequences, FiniteSets, TLC

VARIABLES records, reports, issued, response, inflight

vars == <<records, reports, issued, response, inflight>>

----------------------------------------------------------------------------
(* Bounds of the model *)

MaxPid == 2
MaxReportId == 2
MaxInflight == 2
MaxRecords == 3
MaxListLen == 101

(* Patients with records, the sections (one collection and one view each)  *)
(* and the values a section's record can hold                              *)
Pids == 1..MaxPid
Sections == {1, 2}
Vals == {1, 2}

----------------------------------------------------------------------------
(* Status codes used by the handlers *)

HTTP_200_OK == 200
HTTP_201_CREATED == 201
HTTP_204_NO_CONTENT == 204
HTTP_400_BAD_REQUEST == 400
HTTP_404_NOT_FOUND == 404
HTTP_500_INTERNAL_SERVER_ERROR == 500

(* ReportPagination *)
page_size == 10
max_page_size == 100

----------------------------------------------------------------------------
(* Values that arrive in the URL or the query string: a string (sequence   *)
(* of characters) or, once converted, an integer.  None is an absent       *)
(* query parameter.                                                        *)

Str(s) == [kind |-> "str", s |-> s, n |-> 0]
IntV(n) == [kind |-> "int", s |-> <<>>, n |-> n]
None == [kind |-> "none", s |-> <<>>, n |-> 0]

DigitChars == <<"0", "1", "2", "3", "4", "5", "6", "7", "8", "9">>

IsDigit(c) == \E i \in 1..10 : DigitChars[i] = c

DigitVal(c) == (CHOOSE i \in 1..10 : DigitChars[i] = c) - 1

RECURSIVE DecVal(_)
DecVal(s) ==
    IF s = <<>> THEN 0
    ELSE DecVal(SubSeq(s, 1, Len(s) - 1)) * 10 + DigitVal(s[Len(s)])

AllDigits(s) == s # <<>> /\ \A i \in 1..Len(s) : IsDigit(s[i])

(* Python's int(x): an int is returned as it is; a string is an optional   *)
(* sign followed by decimal digits, anything else raises ValueError.       *)
int(x) ==
    IF x.kind = "int" THEN [exc |-> "None", val |-> x.n]
    ELSE IF x.kind = "none" THEN [exc |-> "TypeError", val |-> 0]
    ELSE IF x.s # <<>> /\ x.s[1] \in {"-", "+"}
         THEN IF AllDigits(Tail(x.s))
              THEN [exc |-> "None",
                    val |-> IF x.s[1] = "-" THEN 0 - DecVal(Tail(x.s))
                                            ELSE DecVal(Tail(x.s))]
              ELSE [exc |-> "ValueError", val |-> 0]
    ELSE IF AllDigits(x.s) THEN [exc |-> "None", val |-> DecVal(x.s)]
    ELSE [exc |-> "ValueError", val |-> 0]

(* Decimal text of a natural number, as a client writes it in a URL *)
RECURSIVE ToStr(_)
ToStr(n) ==
    IF n < 10 THEN <<DigitChars[n + 1]>>
    ELSE Append(ToStr(n \div 10), DigitChars[(n % 10) + 1])

(* The patient identifiers requests carry in the path *)
ValidRawIds == {Str(ToStr(p)) : p \in Pids} \cup {Str(<<"0", "1">>)}

RawIds ==
    ValidRawIds \cup
    {Str(<<"0">>), Str(<<"-", "1">>), Str(<<"a">>), Str(<<"1", ".", "5">>),
     Str(<<>>)}

(* Request bodies of PUT: the section's value, an optional paziente_id     *)
(* (0: none) and whether the serializer accepts the payload.               *)
ValidBodies == [val : Vals, paziente_id : {0, MaxPid}, valid : {TRUE}]

Bodies ==
    ValidBodies \cup [val : {1}, paziente_id : {0}, valid : {FALSE}]

(* The patient identifiers the report requests carry in the path *)
ReportPids == {1, 2}

ReportRawIds ==
    {Str(ToStr(p)) : p \in ReportPids} \cup
    {Str(<<"0">>), Str(<<"-", "1">>), Str(<<"a">>)}

----------------------------------------------------------------------------
(* BasePatientView *)

(* validate_paziente_id with "pid < 0" for "pid <= 0" *)
validate_paziente_id_lt(paziente_id) ==
    LET pid == int(paziente_id) IN
    IF pid.exc = "ValueError"
    THEN [exc |-> "ValidationError", val |-> 0]
    ELSE IF pid.exc # "None" THEN pid
    ELSE IF pid.val < 0 THEN [exc |-> "ValidationError", val |-> 0]
    ELSE pid

validate_paziente_id(paziente_id) ==
    LET pid == int(paziente_id) IN
    IF pid.exc = "ValueError"
    THEN [exc |-> "ValidationError", val |-> 0]
    ELSE IF pid.exc # "None" THEN pid
    ELSE IF pid.val <= 0 THEN [exc |-> "ValidationError", val |-> 0]
    ELSE pid

(* model.objects(paziente_id=pid): the documents of one section's          *)
(* collection with that patient identifier.  A document is identified by   *)
(* its collection (section), its patient and id, the position at which it  *)
(* was inserted among the documents of that patient.                       *)
objects(recs, section, pid) ==
    {d \in recs : d.section = section /\ d.paziente_id = pid}

NoDoc == [id |-> 0, section |-> 0, paziente_id |-> 0, val |-> 0]

(* .first(): the first document in insertion order, None if there is none *)
first(docs) ==
    IF docs = {} THEN NoDoc
    ELSE CHOOSE d \in docs : \A e \in docs : d.id <= e.id

get_object(recs, section, paziente_id) ==
    LET pid == validate_paziente_id(paziente_id) IN
    IF pid.exc # "None" THEN [exc |-> pid.exc, val |-> NoDoc]
    ELSE [exc |-> "None", val |-> first(objects(recs, section, pid.val))]

NewId(recs, section, pid) == Cardinality(objects(recs, section, pid)) + 1

SameDoc(d, e) ==
    d.section = e.section /\ d.paziente_id = e.paziente_id /\ d.id = e.id

NoBody == <<>>

NoQuery == [page_size |-> None, page |-> None]

(* A response, with the request it answers: the view (op, section), the    *)
(* path parameters (raw, rid) and the query string; found tells whether    *)
(* the handler's lookup returned a document.                               *)
Resp(op, section, raw, rid, status, found, body) ==
    [op |-> op, section |-> section, raw |-> raw, rid |-> rid,
     query |-> NoQuery, status |-> status, found |-> found, body |-> body]

ListResp(op, raw, query, status, body) ==
    [Resp(op, 0, raw, 0, status, status = HTTP_200_OK, body)
        EXCEPT !.query = query]

(* get: the response of GET on a section's record *)
BasePatientView_get(recs, section, paziente_id) ==
    LET instance == get_object(recs, section, paziente_id) IN
    IF instance.exc = "ValidationError"
    THEN Resp("GET", section, paziente_id, 0, HTTP_400_BAD_REQUEST, FALSE, NoBody)
    ELSE IF instance.exc # "None"
    THEN Resp("GET", section, paziente_id, 0, HTTP_500_INTERNAL_SERVER_ERROR,
              FALSE, NoBody)
    ELSE IF instance.val = NoDoc
    THEN \* NotFound is caught together with ValidationError
         Resp("GET", section, paziente_id, 0, HTTP_400_BAD_REQUEST, FALSE, NoBody)
    ELSE Resp("GET", section, paziente_id, 0, HTTP_200_OK, TRUE, <<instance.val>>)

(* put, up to the lookup: the validated identifier and the instance found *)
put_lookup(recs, section, paziente_id) ==
    LET pid == validate_paziente_id(paziente_id) IN
    IF pid.exc # "None" THEN [exc |-> pid.exc, pid |-> 0, instance |-> NoDoc]
    ELSE LET instance == get_object(recs, section, IntV(pid.val)) IN
         [exc |-> instance.exc, pid |-> pid.val, instance |-> instance.val]

(* put, from the copy of request.data to the response: the new collection  *)
(* and the response, given what the lookup returned                        *)
put_save(recs, section, paziente_id, data, lk) ==
    IF lk.exc = "ValidationError"
    THEN [records |-> recs,
          response |-> Resp("PUT", section, paziente_id, 0,
                            HTTP_400_BAD_REQUEST, FALSE, NoBody)]
    ELSE IF lk.exc # "None"
    THEN [records |-> recs,
          response |-> Resp("PUT", section, paziente_id, 0,
                            HTTP_500_INTERNAL_SERVER_ERROR, FALSE, NoBody)]
    ELSE IF ~data.valid
    THEN [records |-> recs,
          response |-> Resp("PUT", section, paziente_id, 0,
                            HTTP_400_BAD_REQUEST, lk.instance # NoDoc, NoBody)]
    ELSE LET validated_data == [paziente_id |-> lk.pid, val |-> data.val]
             found == lk.instance # NoDoc
             instance ==
                 IF found
                 THEN [lk.instance EXCEPT !.paziente_id = validated_data.paziente_id,
                                          !.val = validated_data.val]
                 ELSE [id |-> NewId(recs, section, lk.pid), section |-> section,
                       paziente_id |-> validated_data.paziente_id,
                       val |-> validated_data.val]
             \* save(): a document that has an id replaces the stored document
             \* with that id, a new document is inserted
             saved == {d \in recs : ~SameDoc(d, instance)} \cup {instance}
         IN  [records |-> saved,
              \* "if instance" is evaluated after instance was rebound to the
              \* created document
              response |-> Resp("PUT", section, paziente_id, 0,
                                IF instance # NoDoc THEN HTTP_200_OK
                                                    ELSE HTTP_201_CREATED,
                                found, <<instance>>)]

BasePatientView_put(recs, section, paziente_id, data) ==
    put_save(recs, section, paziente_id, data,
             put_lookup(recs, section, paziente_id))

----------------------------------------------------------------------------
(* Report: paziente_id, report_id and, per section, the id of the          *)
(* referenced record of that patient (0: no reference).  operatore_id is   *)
(* copied from the request and read by no handler; it is left out.         *)

NoRefs == [s \in Sections |-> 0]

NoReport == [paziente_id |-> 0, report_id |-> 0, refs |-> NoRefs]

Max(S) == CHOOSE x \in S : \A y \in S : y <= x

Min(a, b) == IF a <= b THEN a ELSE b

(* Report.objects(paziente_id=...): the value is converted by the integer  *)
(* field; a text that is no integer raises there                           *)
Report_objects(reps, paziente_id) ==
    LET pid == int(paziente_id) IN
    IF pid.exc # "None" THEN [exc |-> pid.exc, val |-> {}]
    ELSE [exc |-> "None", val |-> {r \in reps : r.paziente_id = pid.val}]

first_report(matching) ==
    IF matching = {} THEN NoReport ELSE CHOOSE r \in matching : TRUE

(* Report.get_next_report_id: one more than the largest report_id among    *)
(* the patient's stored reports, 1 when there is none                      *)
get_next_report_id(reps, pid) ==
    LET mine == {r.report_id : r \in {q \in reps : q.paziente_id = pid}} IN
    IF mine = {} THEN 1 ELSE Max(mine) + 1

(* Report.get_latest_records: per section, the most recently inserted      *)
(* record of the report's patient, None (0) when the section has none      *)
get_latest_records(recs, pid) ==
    [s \in Sections |->
        LET docs == objects(recs, s, pid) IN
        IF docs = {} THEN 0 ELSE Max({d.id : d \in docs})]

(* A set of documents as a sequence, in the order the store returns them *)
RECURSIVE AsSeq(_)
AsSeq(S) ==
    IF S = {} THEN <<>>
    ELSE LET d == CHOOSE x \in S : TRUE IN <<d>> \o AsSeq(S \ {d})

(* order_by('-report_id'): the reports with the largest report_id first *)
RECURSIVE DescFrom(_, _)
DescFrom(S, k) ==
    IF k <= 0 THEN <<>>
    ELSE AsSeq({r \in S : r.report_id = k}) \o DescFrom(S, k - 1)

order_by_desc(S) ==
    IF S = {} THEN <<>> ELSE DescFrom(S, Max({r.report_id : r \in S}))

(* get_page_size without max_page_size *)
get_page_size_nocap(query) ==
    LET n == int(query.page_size) IN
    IF query.page_size = None \/ n.exc # "None" \/ n.val <= 0 THEN page_size
    ELSE n.val

(* PageNumberPagination.get_page_size with the page_size,                  *)
(* page_size_query_param and max_page_size of ReportPagination             *)
get_page_size(query) ==
    LET n == int(query.page_size) IN
    IF query.page_size = None \/ n.exc # "None" \/ n.val <= 0 THEN page_size
    ELSE Min(n.val, max_page_size)

(* paginate_queryset of ReportPagination: the requested page of the list, NotFound for a page  *)
(* number that is no integer, below 1 or beyond the last page              *)
paginate_queryset(data, query) ==
    LET per_page == get_page_size(query)
        count == Len(data)
        num_pages == IF count = 0 THEN 1
                     ELSE (count + per_page - 1) \div per_page
        number == IF query.page = None THEN [exc |-> "None", val |-> 1]
                  ELSE int(query.page)
    IN  IF number.exc # "None" \/ number.val < 1 \/ number.val > num_pages
        THEN [exc |-> "NotFound", page |-> <<>>]
        ELSE [exc |-> "None",
              page |-> SubSeq(data, (number.val - 1) * per_page + 1,
                              Min(number.val * per_page, count))]

(* ReportView.get; report_id 0 stands for the route without a report_id *)
ReportView_get(reps, paziente_id, report_id, query) ==
    LET mine == Report_objects(reps, paziente_id) IN
    IF mine.exc # "None"
    THEN Resp("ReportGet", 0, paziente_id, report_id,
              HTTP_500_INTERNAL_SERVER_ERROR, FALSE, NoBody)
    ELSE IF report_id # 0
    THEN LET report ==
                 first_report({r \in mine.val : r.report_id = report_id})
         IN  IF report = NoReport
             THEN Resp("ReportGet", 0, paziente_id, report_id,
                       HTTP_404_NOT_FOUND, FALSE, NoBody)
             ELSE Resp("ReportGet", 0, paziente_id, report_id, HTTP_200_OK,
                       TRUE, <<report>>)
    ELSE LET page == paginate_queryset(order_by_desc(mine.val), query) IN
         IF page.exc = "NotFound"
         THEN ListResp("ReportList", paziente_id, query, HTTP_404_NOT_FOUND,
                       NoBody)
         ELSE ListResp("ReportList", paziente_id, query, HTTP_200_OK,
                       page.page)

(* QuickReportView.get: NotFound is not caught apart from other exceptions *)
QuickReportView_get(reps, paziente_id, query) ==
    LET mine == Report_objects(reps, paziente_id) IN
    IF mine.exc # "None"
    THEN ListResp("QuickList", paziente_id, query,
                  HTTP_500_INTERNAL_SERVER_ERROR, NoBody)
    ELSE LET page == paginate_queryset(order_by_desc(mine.val), query) IN
         IF page.exc # "None"
         THEN ListResp("QuickList", paziente_id, query,
                       HTTP_500_INTERNAL_SERVER_ERROR, NoBody)
         ELSE ListResp("QuickList", paziente_id, query, HTTP_200_OK,
                       page.page)

(* ReportView.post with report.save() moved before the check for records *)
ReportView_post_savefirst(recs, reps, paziente_id) ==
    LET pid == int(paziente_id) IN
    IF pid.exc # "None"
    THEN [reports |-> reps,
          response |-> Resp("ReportPost", 0, paziente_id, 0,
                            HTTP_500_INTERNAL_SERVER_ERROR, FALSE, NoBody)]
    ELSE LET report_id == get_next_report_id(reps, pid.val)
             latest_records == get_latest_records(recs, pid.val)
             report == [paziente_id |-> pid.val, report_id |-> report_id,
                        refs |-> latest_records]
         IN  IF \A s \in Sections : latest_records[s] = 0
             THEN [reports |-> reps \cup {report},
                   response |-> Resp("ReportPost", 0, paziente_id, report_id,
                                     HTTP_400_BAD_REQUEST, FALSE, NoBody)]
             ELSE [reports |-> reps \cup {report},
                   response |-> Resp("ReportPost", 0, paziente_id,
                                     report_id, HTTP_201_CREATED, TRUE,
                                     <<report>>)]

(* ReportView.post with every field assigned the last record found *)
ReportView_post_samerecord(recs, reps, paziente_id) ==
    LET pid == int(paziente_id) IN
    IF pid.exc # "None"
    THEN [reports |-> reps,
          response |-> Resp("ReportPost", 0, paziente_id, 0,
                            HTTP_500_INTERNAL_SERVER_ERROR, FALSE, NoBody)]
    ELSE LET report_id == get_next_report_id(reps, pid.val)
             latest_records == get_latest_records(recs, pid.val)
         IN  IF \A s \in Sections : latest_records[s] = 0
             THEN [reports |-> reps,
                   response |-> Resp("ReportPost", 0, paziente_id, report_id,
                                     HTTP_400_BAD_REQUEST, FALSE, NoBody)]
             ELSE LET record == Max({latest_records[s] : s \in Sections})
                      report ==
                          [paziente_id |-> pid.val, report_id |-> report_id,
                           refs |-> [s \in Sections |-> record]]
                  IN  [reports |-> reps \cup {report},
                       response |-> Resp("ReportPost", 0, paziente_id,
                                         report_id, HTTP_201_CREATED, TRUE,
                                         <<report>>)]

(* ReportView.post: the new collection of reports and the response *)
ReportView_post(recs, reps, paziente_id) ==
    LET pid == int(paziente_id) IN
    IF pid.exc # "None"
    THEN [reports |-> reps,
          response |-> Resp("ReportPost", 0, paziente_id, 0,
                            HTTP_500_INTERNAL_SERVER_ERROR, FALSE, NoBody)]
    ELSE LET report_id == get_next_report_id(reps, pid.val)
             latest_records == get_latest_records(recs, pid.val)
         IN  IF \A s \in Sections : latest_records[s] = 0
             THEN [reports |-> reps,
                   response |-> Resp("ReportPost", 0, paziente_id, report_id,
                                     HTTP_400_BAD_REQUEST, FALSE, NoBody)]
             ELSE LET report ==
                          [paziente_id |-> pid.val, report_id |-> report_id,
                           refs |-> [s \in Sections |->
                                        IF latest_records[s] # 0
                                        THEN latest_records[s] ELSE 0]]
                  IN  [reports |-> reps \cup {report},
                       response |-> Resp("ReportPost", 0, paziente_id,
                                         report_id, HTTP_201_CREATED, TRUE,
                                         <<report>>)]

(* ReportView.delete with the report_id filter left out of the query *)
ReportView_delete_all(reps, paziente_id, report_id) ==
    LET mine == Report_objects(reps, paziente_id) IN
    IF mine.exc # "None"
    THEN [reports |-> reps,
          response |-> Resp("ReportDelete", 0, paziente_id, report_id,
                            HTTP_500_INTERNAL_SERVER_ERROR, FALSE, NoBody)]
    ELSE IF mine.val = {}
    THEN [reports |-> reps,
          response |-> Resp("ReportDelete", 0, paziente_id, report_id,
                            HTTP_404_NOT_FOUND, FALSE, NoBody)]
    ELSE [reports |-> reps \ mine.val,
          response |-> Resp("ReportDelete", 0, paziente_id, report_id,
                            HTTP_204_NO_CONTENT, TRUE, NoBody)]

(* ReportView.delete *)
ReportView_delete(reps, paziente_id, report_id) ==
    LET mine == Report_objects(reps, paziente_id) IN
    IF mine.exc # "None"
    THEN [reports |-> reps,
          response |-> Resp("ReportDelete", 0, paziente_id, report_id,
                            HTTP_500_INTERNAL_SERVER_ERROR, FALSE, NoBody)]
    ELSE LET report ==
                 first_report({r \in mine.val : r.report_id = report_id})
         IN  IF report = NoReport
             THEN [reports |-> reps,
                   response |-> Resp("ReportDelete", 0, paziente_id, report_id,
                                     HTTP_404_NOT_FOUND, FALSE, NoBody)]
             ELSE [reports |-> reps \ {report},
                   response |-> Resp("ReportDelete", 0, paziente_id, report_id,
                                     HTTP_204_NO_CONTENT, TRUE, NoBody)]

----------------------------------------------------------------------------
(* State: the section collections (records), the report collection         *)
(* (reports), the response of the last request, the PUT requests between   *)
(* their lookup and their save (inflight), and per patient the largest     *)
(* report_id a POST ever stored (issued, history).                         *)

NoResponse == Resp("none", 0, None, 0, 0, FALSE, NoBody)

Init ==
    /\ records = {}
    /\ reports = {}
    /\ issued = [p \in Pids |-> 0]
    /\ response = NoResponse
    /\ inflight = {}

(* GET and PUT of the section records; every request is handled alone *)
Get ==
    \E section \in Sections, raw \in RawIds :
        /\ response' = BasePatientView_get(records, section, raw)
        /\ UNCHANGED <<records, reports, issued, inflight>>

PutWith(raws, bodies) ==
    \E section \in Sections, raw \in raws, data \in bodies :
        LET r == BasePatientView_put(records, section, raw, data) IN
        /\ records' = r.records
        /\ response' = r.response
        /\ UNCHANGED <<reports, issued, inflight>>

Put == PutWith(RawIds, Bodies)

Next == Get \/ Put

Spec == Init /\ [][Next]_vars

----------------------------------------------------------------------------
(* The report handlers.  The section collections are drawn at the start    *)
(* from the stores PUT requests lead to (at most one record per section    *)
(* and patient); the report requests then run one at a time.               *)

FirstRecords ==
    {[id |-> 1, section |-> s, paziente_id |-> p, val |-> 1] :
        s \in Sections, p \in ReportPids}

ReportInit ==
    /\ records \in SUBSET FirstRecords
    /\ reports = {}
    /\ issued = [p \in Pids |-> 0]
    /\ response = NoResponse
    /\ inflight = {}

ReportGetWith(raws, rids, queries) ==
    \E raw \in raws, report_id \in rids, query \in queries :
        /\ response' = ReportView_get(reports, raw, report_id, query)
        /\ UNCHANGED <<records, reports, issued, inflight>>

QuickReportGetWith(raws, queries) ==
    \E raw \in raws, query \in queries :
        /\ response' = QuickReportView_get(reports, raw, query)
        /\ UNCHANGED <<records, reports, issued, inflight>>

(* issued is history: it records the stored report_id when track is set *)
ReportPostWith(raws, track) ==
    \E raw \in raws :
        LET r == ReportView_post(records, reports, raw)
            created == r.reports \ reports
        IN  /\ \A c \in created : c.report_id <= MaxReportId
            /\ reports' = r.reports
            /\ response' = r.response
            /\ issued' =
                   IF track
                   THEN [p \in Pids |->
                            Max({issued[p]} \cup
                                {c.report_id : c \in {d \in created :
                                                  d.paziente_id = p}})]
                   ELSE issued
            /\ UNCHANGED <<records, inflight>>

ReportDelete ==
    \E raw \in ReportRawIds, report_id \in 0..(MaxReportId + 1) :
        LET r == ReportView_delete(reports, raw, report_id) IN
        /\ reports' = r.reports
        /\ response' = r.response
        /\ UNCHANGED <<records, issued, inflight>>

ReportGet == ReportGetWith(ReportRawIds, 0..(MaxReportId + 1), {NoQuery})

QuickReportGet == QuickReportGetWith(ReportRawIds, {NoQuery})

ReportPost == ReportPostWith(ReportRawIds, FALSE)

ReportNext == ReportGet \/ QuickReportGet \/ ReportPost \/ ReportDelete

ReportSpec == ReportInit /\ [][ReportNext]_vars

(* The same requests with the history of stored report_ids kept *)
ReportPostTracked == ReportPostWith(ReportRawIds, TRUE)

HistNext == ReportPostTracked \/ ReportDelete

HistSpec == ReportInit /\ [][HistNext]_vars

(* PUTs on the section records between report POSTs *)
SnapshotRawIds == {Str(ToStr(p)) : p \in ReportPids}

SnapshotBodies == [val : Vals, paziente_id : {0}, valid : {TRUE}]

SnapshotPut == PutWith(SnapshotRawIds, SnapshotBodies)

SnapshotPost == ReportPostWith(SnapshotRawIds, FALSE)

SnapshotNext == SnapshotPut \/ SnapshotPost

SnapshotSpec == Init /\ [][SnapshotNext]_vars

----------------------------------------------------------------------------
(* The paginated lists.  A patient's reports are drawn at the start: the   *)
(* reports 1..n that n POSTs store for a patient with a record in every    *)
(* section, next to the reports of another patient.  The list handlers     *)
(* write nothing, so each request is applied to the drawn store.           *)

ReportsOf(p, n) ==
    {[paziente_id |-> p, report_id |-> i, refs |-> [s \in Sections |-> 1]] :
        i \in 1..n}

PageInit ==
    /\ records = FirstRecords
    /\ \E n \in 0..MaxListLen : reports = ReportsOf(1, n) \cup ReportsOf(2, 3)
    /\ issued = [p \in Pids |-> 0]
    /\ response = NoResponse
    /\ inflight = {}

PageSizes ==
    {None, Str(<<"0">>), Str(<<"a">>), Str(<<"3">>), Str(ToStr(page_size)),
     Str(ToStr(max_page_size)), Str(ToStr(max_page_size + 50))}

PageNumbers == {None, Str(<<"1">>), Str(<<"2">>), Str(<<"0">>), Str(<<"a">>)}

PageQueries == [page_size : PageSizes, page : PageNumbers]

PageRawIds == {Str(<<"1">>), Str(<<"2">>), Str(<<"0">>)}

ReportList ==
    /\ response = NoResponse
    /\ ReportGetWith(PageRawIds, {0}, PageQueries)

QuickReportList ==
    /\ response = NoResponse
    /\ QuickReportGetWith(PageRawIds, PageQueries)

PageNext == ReportList \/ QuickReportList

PageSpec == PageInit /\ [][PageNext]_vars

----------------------------------------------------------------------------
(* Concurrent PUTs on one section's view: a request runs its lookup        *)
(* (validate_paziente_id, get_object), other requests run, then it runs    *)
(* the rest of put on what the lookup returned.                            *)

ConcSection == CHOOSE s \in Sections : \A t \in Sections : s <= t

ConcRawIds == {Str(ToStr(p)) : p \in Pids}

PutBegin ==
    \E raw \in ConcRawIds, data \in ValidBodies :
        /\ Cardinality(inflight) < MaxInflight
        /\ inflight' = inflight \cup
               {[raw |-> raw, data |-> data,
                 lk |-> put_lookup(records, ConcSection, raw)]}
        /\ UNCHANGED <<records, reports, issued, response>>

PutEnd ==
    \E req \in inflight :
        LET r == put_save(records, ConcSection, req.raw, req.data, req.lk) IN
        /\ Cardinality(r.records) <= MaxRecords
        /\ records' = r.records
        /\ response' = r.response
        /\ inflight' = inflight \ {req}
        /\ UNCHANGED <<reports, issued>>

ConcNext == PutBegin \/ PutEnd

ConcSpec == Init /\ [][ConcNext]_vars

----------------------------------------------------------------------------
(* Properties of the section record handlers *)

ValidId(raw) == validate_paziente_id(raw).exc = "None"

PidOf(raw) == int(raw).val

(* C1: a PUT with a valid patient identifier and an accepted payload       *)
(* responds 201 when no record existed for the patient (the record is      *)
(* created) and 200 when one existed (that record is updated in place).    *)
C1_PutStatus ==
    (response.op = "PUT" /\ ValidId(response.raw) /\ response.body # NoBody)
        => /\ response.status =
                  IF response.found THEN HTTP_200_OK ELSE HTTP_201_CREATED
           /\ response.body[1] \in records

(* C3: GET with a valid patient identifier responds 404 when the section   *)
(* holds no record of the patient and 200 with the record when it does.    *)
C3_GetStatus ==
    (response.op = "GET" /\ ValidId(response.raw))
        => LET docs == objects(records, response.section, PidOf(response.raw))
           IN  IF docs = {} THEN response.status = HTTP_404_NOT_FOUND
               ELSE /\ response.status = HTTP_200_OK
                    /\ response.body = <<first(docs)>>

(* C4: GET and PUT with a patient identifier that is not the decimal text  *)
(* of a positive integer respond 400 and leave every record as it was.     *)
C4_InvalidId ==
    [][(response'.op \in {"GET", "PUT"} /\ response'.raw \notin ValidRawIds)
           => (response'.status = HTTP_400_BAD_REQUEST /\ records' = records)]_vars

C4_Witness ==
    /\ response.op = "PUT"
    /\ response.raw = Str(<<"0">>)
    /\ response.status = HTTP_400_BAD_REQUEST
    /\ records # {}

(* C8: a section holds at most one record per patient, and the record a    *)
(* PUT saves carries the patient identifier of the request path whatever   *)
(* paziente_id the request body names.                                     *)
C8_OneRecordPerPatient ==
    /\ \A section \in Sections, pid \in Pids :
           Cardinality(objects(records, section, pid)) <= 1
    /\ (response.op = "PUT" /\ response.body # NoBody)
           => response.body[1].paziente_id = PidOf(response.raw)

----------------------------------------------------------------------------
(* Properties of the report handlers *)

ReportOps == {"ReportGet", "ReportList", "ReportPost", "ReportDelete", "QuickList"}

Matching(reps, raw, report_id) ==
    {r \in reps : r.paziente_id = PidOf(raw) /\ r.report_id = report_id}

UniqueReportIds(reps) ==
    \A r \in reps, q \in reps :
        (r.paziente_id = q.paziente_id /\ r.report_id = q.report_id) => r = q

(* C2: no two stored reports of a patient share a report_id, and the       *)
(* report a POST stores has a report_id greater than that of every report  *)
(* stored for the patient before.                                          *)
C2_UniqueIncreasing ==
    [][/\ UniqueReportIds(reports')
       /\ \A r \in reports' \ reports : r.report_id > issued[r.paziente_id]]_vars

(* C5: the report handlers answer a patient identifier that is not the     *)
(* decimal text of a positive integer with 400, and store or delete no     *)
(* report.                                                                 *)
C5_ReportInvalidId ==
    [][(response'.op \in ReportOps /\ ~ValidId(response'.raw))
           => (response'.status = HTTP_400_BAD_REQUEST /\ reports' = reports)]_vars

(* C6: a report POST for a patient without a record in any section         *)
(* responds 400, leaves the stored reports as they were, and the next      *)
(* report_id of the patient is what it was before the request.             *)
C6_PostWithoutRecords ==
    [][(/\ response'.op = "ReportPost"
        /\ int(response'.raw).exc = "None"
        /\ \A s \in Sections : objects(records, s, PidOf(response'.raw)) = {})
           => /\ response'.status = HTTP_400_BAD_REQUEST
              /\ reports' = reports
              /\ get_next_report_id(reports', PidOf(response'.raw))
                     = get_next_report_id(reports, PidOf(response'.raw))]_vars

C6_Witness ==
    /\ response.op = "ReportPost"
    /\ response.status = HTTP_400_BAD_REQUEST
    /\ response.raw = Str(<<"2">>)
    /\ \A s \in Sections : objects(records, s, 2) = {}
    /\ \E r \in reports : r.report_id = MaxReportId

(* C7: a DELETE of an existing report (p, r) responds 204 and removes that *)
(* report and no other, after which GET of (p, r) responds 404; a DELETE   *)
(* of a report that does not exist responds 404 and removes nothing; only  *)
(* a POST adds a report.                                                   *)
C7_Delete ==
    [][/\ (response'.op = "ReportDelete" /\ int(response'.raw).exc = "None")
           => LET hit == Matching(reports, response'.raw, response'.rid) IN
              IF hit = {}
              THEN response'.status = HTTP_404_NOT_FOUND /\ reports' = reports
              ELSE /\ response'.status = HTTP_204_NO_CONTENT
                   /\ reports' = reports \ hit
                   /\ ReportView_get(reports', response'.raw, response'.rid,
                                     NoQuery).status = HTTP_404_NOT_FOUND
       /\ (response'.op = "ReportGet" /\ int(response'.raw).exc = "None")
           => (response'.status = HTTP_404_NOT_FOUND
                   <=> Matching(reports, response'.raw, response'.rid) = {})
       /\ response'.op # "ReportPost" => reports' \subseteq reports]_vars

C7_Witness ==
    /\ response.op = "ReportDelete"
    /\ response.status = HTTP_204_NO_CONTENT
    /\ response.rid = 1
    /\ \E r \in reports : r.paziente_id = PidOf(response.raw) /\ r.report_id = 2
    /\ \E r \in reports : r.paziente_id # PidOf(response.raw) /\ r.report_id = 1

(* C9: the report a POST stores references, in each section, the latest    *)
(* record of the patient at that moment and nothing where the section has  *)
(* no record; PUTs and POSTs after that leave the stored report and the    *)
(* records it references in place.                                         *)
C9_Snapshot ==
    [][/\ \A r \in reports' \ reports : \A s \in Sections :
              LET docs == objects(records, s, r.paziente_id) IN
              r.refs[s] = IF docs = {} THEN 0
                          ELSE (CHOOSE d \in docs :
                                   \A e \in docs : e.id <= d.id).id
       /\ reports \subseteq reports'
       /\ \A r \in reports' : \A s \in Sections :
              r.refs[s] # 0 =>
                  \E d \in objects(records', s, r.paziente_id) : d.id = r.refs[s]]_vars

C9_Witness ==
    /\ response.op = "PUT"
    /\ \E r \in reports :
           /\ r.refs[1] # 0
           /\ r.refs[2] = 0
           /\ objects(records, 2, r.paziente_id) # {}
           /\ \E d \in objects(records, 1, r.paziente_id) : d.val = 2

(* C10: the report list and the quick report list of patient p return      *)
(* stored reports of p only, the largest report_id first, at most 10 of    *)
(* them when no page size is requested and at most min(k, 100) when page   *)
(* size k is requested; the stored reports stay as they are.               *)
RequestedSize(query) ==
    LET k == int(query.page_size) IN
    IF query.page_size # None /\ k.exc = "None" /\ k.val > 0
    THEN IF k.val > max_page_size THEN max_page_size ELSE k.val
    ELSE page_size

C10_Lists ==
    [][(response'.op \in {"ReportList", "QuickList"}
            /\ response'.status = HTTP_200_OK)
           => LET body == response'.body IN
              /\ \A i \in 1..Len(body) :
                     /\ body[i] \in reports
                     /\ body[i].paziente_id = PidOf(response'.raw)
              /\ \A i \in 1..Len(body), j \in 1..Len(body) :
                     i < j => body[i].report_id > body[j].report_id
              /\ Len(body) <= RequestedSize(response'.query)
              /\ Len(body) <= max_page_size
              /\ reports' = reports]_vars

C10_Witness ==
    /\ response.op = "ReportList"
    /\ response.status = HTTP_200_OK
    /\ response.query.page_size = Str(ToStr(max_page_size + 50))
    /\ Len(response.body) = max_page_size
    /\ Cardinality(reports) > max_page_size + 3

====
